---- MODULE Spec2Model ----
(***************************************************************************)
(* AecState (modules/audio_processing/aec3/aec_state.cc): the belief state *)
(* of the AEC3 echo canceller and its five sub-trackers, InitialState,     *)
(* FilterDelay, TransparentMode, FilteringQualityAnalyzer and              *)
(* SaturationDetector.                                                     *)
(*                                                                         *)
(* Every sub-tracker is a record holding the members of the C++ class; its *)
(* methods are operators from the old record (and the arguments) to the    *)
(* new record, statement by statement.  The collaborators that live in     *)
(* other files (filter analyzers, subtractor-output analyzers, ERL and     *)
(* ERLE estimators) are represented by what this file does to them: the    *)
(* calls an operation issues, in order, and the values it reads back,      *)
(* which are inputs.                                                       *)
(*                                                                         *)
(* kNumBlocksPerSecond is a compile-time constant of aec3_common.h.  It is *)
(* held in a variable that no action changes, so that the trackers whose   *)
(* state space allows it are explored at the real rate (BlockRate) and the *)
(* ones with many interacting counters at a scaled rate (ScaledBlockRate). *)
(***************************************************************************)
EXTENDS Integers, Sequences, FiniteSets, TLC

\* ---------------------------------------------------------------- constants

kBlocksSinceConvergencedFilterInit == 10000
kBlocksSinceConsistentEstimateInit == 10000

\* aec3_common.h: samples per block.
kBlockSize == 64

\* aec3_common.h: half the FFT length, the samples the render energy is
\* compared against.
kFftLengthBy2 == 64

\* aec3_common.h: kNumBlocksPerSecond = 250.
BlockRate == 250

\* ------------------------------------------------------------------- bounds

\* The rate used where the real one makes the state space too large.
ScaledBlockRate == 1

\* TransparentMode, and AecState with an untrained filter: Update calls
\* explored per behaviour.
MaxBlocks == 7

\* TransparentMode with a filter that converges: the longest run of
\* consecutive Update calls with a converged filter that is explored.
MaxConvergedRun == 53

\* TransparentMode with a filter that stops converging: the longest run of
\* consecutive Update calls without a converged filter that is explored.
MaxNonConvergedRun == 62

\* FilteringQualityAnalyzer: filter-update blocks explored past the startup
\* threshold of 0.4 * kNumBlocksPerSecond.
FilterUpdateSlack == 2

\* InitialState: blocks explored past the threshold.
InitialStateSlack == 2

\* AecState with every kind of filter reading: Update calls explored per
\* behaviour.
MaxAecBlocks == 2

\* Capture channels (filter analyzers, subtractor outputs) of the trackers
\* that take per-channel arguments.
NumCaptureChannels == 2

\* FilterAnalyzer::DelayBlocks() values, on both sides of the "sane filter"
\* limit of 5 blocks.
FilterDelays == {4, 5}

\* DelayEstimate::delay values of an external delay.
ExternalDelays == {1, 2}

\* FilterAnalyzer::Gain() values.
EchoPathGains == {1}

\* Samples of the aligned render block: silence, and a level that is active
\* render (4000^2 > 100^2 * 64) and a saturating echo at gain 1.
RenderSamples == {0, 4000}

\* Peaks (s_main_max_abs, s_shadow_max_abs) of a subtractor output, on both
\* sides of the 20000 of line 508.
SubtractorPeaks == {<<0, 0>>, <<20001, 0>>}

\* Render samples given to the SaturationDetector on its own: on both sides
\* of 32000 / 10 at gain 1, 32000 / 10 itself, and a negative one.
DetectorSamples == {-4000, 3000, 3200, 4000}

\* Echo path gains given to the SaturationDetector on its own.
DetectorGains == {1, 2}

\* Peaks given to the SaturationDetector on its own, on both sides of 20000.
DetectorPeaks == {<<20000, 20000>>, <<20001, 0>>, <<0, 20001>>}

\* The render channels, and the capture channels, of the SaturationDetector
\* on its own.
DetectorChannels == {1, 2}

\* config.delay.delay_headroom_samples values (32 is the default).
DelayHeadroomSamples == {32, 128}

\* config.filter.initial_state_seconds values, as exact fractions n/d
\* (2.5 is the default); all are exactly representable floats.
InitialStateSeconds == {[n |-> 5, d |-> 2], [n |-> 1, d |-> 1], [n |-> 0, d |-> 1]}

\* ---------------------------------------------------------------- variables

VARIABLES
  kNumBlocksPerSecond,                  \* aec3_common.h constant, never changed
  config_,                              \* EchoCanceller3Config parts read here
  capture_signal_saturation_,           \* AecState members
  strong_not_saturated_render_blocks_,
  blocks_with_active_render_,
  initial_state_,                       \* InitialState
  delay_state_,                         \* FilterDelay
  transparent_state_,                   \* TransparentMode
  filter_quality_state_,                \* FilteringQualityAnalyzer
  saturation_detector_,                 \* SaturationDetector
  collaborators,                        \* calls issued to the external
                                        \* collaborators by the last operation
  call                                  \* the last operation and its arguments

vars == <<kNumBlocksPerSecond, config_, capture_signal_saturation_,
          strong_not_saturated_render_blocks_, blocks_with_active_render_,
          initial_state_, delay_state_, transparent_state_,
          filter_quality_state_, saturation_detector_, collaborators, call>>

\* ------------------------------------------------------------------ helpers

\* absl::optional<DelayEstimate>; only DelayEstimate::delay is read here.
nullopt == [has_value |-> FALSE, delay |-> 0]

DelayEstimate(d) == [has_value |-> TRUE, delay |-> d]

OptionalDelays == {nullopt} \cup {DelayEstimate(d) : d \in ExternalDelays}

Min(a, b) == IF a < b THEN a ELSE b

Max(a, b) == IF a > b THEN a ELSE b

\* count > kNumBlocksPerSecond * (n/d) for a size_t count and a float factor
\* n/d.  The float product is exact for the factors of this file (5, 6, ...,
\* 2.5f) and rounds to the exact integer for 0.4f and 0.2f whenever the exact
\* product is an integer, so the comparison is the rational one.
ExceedsSeconds(count, n, d) == count * d > kNumBlocksPerSecond * n

BelowSeconds(count, n, d) == count * d < kNumBlocksPerSecond * n

\* ------------------------------------------------------------- InitialState

\* InitialState_Reset without line 315.
InitialState_Reset_KeepsCounter(s) == [s EXCEPT !.initial_state_ = TRUE]

\* AecState::InitialState::Reset
InitialState_Reset(s) ==
  [s EXCEPT !.initial_state_ = TRUE,
            !.strong_not_saturated_render_blocks_ = 0]

\* AecState::InitialState::InitialState; transition_triggered_ starts false
\* (member initializer).
InitialState_Construct(config) ==
  InitialState_Reset(
    [conservative_initial_phase_ |-> config.conservative_initial_phase,
     initial_state_seconds_ |-> config.initial_state_seconds,
     transition_triggered_ |-> FALSE,
     initial_state_ |-> TRUE,
     strong_not_saturated_render_blocks_ |-> 0])

\* The comparison of lines 324-330 for a counter value.
InitialState_BelowThreshold(s, blocks) ==
  IF s.conservative_initial_phase_
    THEN BelowSeconds(blocks, 5, 1)
    ELSE BelowSeconds(blocks, s.initial_state_seconds_.n,
                      s.initial_state_seconds_.d)

\* InitialState_Update with transition_triggered_ following the level of
\* initial_state_ instead of its edge.
InitialState_Update_LevelTriggered(s, active_render, saturated_capture) ==
  LET blocks == s.strong_not_saturated_render_blocks_ +
                  (IF active_render /\ ~saturated_capture THEN 1 ELSE 0)
      initial_state == InitialState_BelowThreshold(s, blocks)
  IN [s EXCEPT !.strong_not_saturated_render_blocks_ = blocks,
               !.initial_state_ = initial_state,
               !.transition_triggered_ = ~initial_state]

\* InitialState_Update with transition_triggered_ taken from the previous
\* initial_state_ alone, without the new one.
InitialState_Update_TriggeredWhileInitial(s, active_render, saturated_capture) ==
  LET blocks == s.strong_not_saturated_render_blocks_ +
                  (IF active_render /\ ~saturated_capture THEN 1 ELSE 0)
      prev_initial_state == s.initial_state_
      initial_state == InitialState_BelowThreshold(s, blocks)
  IN [s EXCEPT !.strong_not_saturated_render_blocks_ = blocks,
               !.initial_state_ = initial_state,
               !.transition_triggered_ = prev_initial_state]

\* AecState::InitialState::Update
InitialState_Update(s, active_render, saturated_capture) ==
  LET blocks == s.strong_not_saturated_render_blocks_ +
                  (IF active_render /\ ~saturated_capture THEN 1 ELSE 0)
      prev_initial_state == s.initial_state_
      initial_state == InitialState_BelowThreshold(s, blocks)
  IN [s EXCEPT !.strong_not_saturated_render_blocks_ = blocks,
               !.initial_state_ = initial_state,
               !.transition_triggered_ = ~initial_state /\ prev_initial_state]

\* -------------------------------------------------------------- FilterDelay

\* AecState::FilterDelay::FilterDelay; the other members start at their
\* member initializers (no delay, not reported, 0 blocks).
FilterDelay_Construct(config) ==
  [delay_headroom_samples_ |-> config.delay_headroom_samples,
   external_delay_reported_ |-> FALSE,
   filter_delay_blocks_ |-> 0,
   external_delay_ |-> nullopt]

\* The loop of lines 358-362 over DelayBlocks() of the analyzers from
\* channel ch on, started at the value of channel 0.
RECURSIVE MinDelayBlocks(_, _, _)
MinDelayBlocks(filter_analyzers, ch, acc) ==
  IF ch > Len(filter_analyzers)
    THEN acc
    ELSE MinDelayBlocks(filter_analyzers, ch + 1,
                        Min(acc, filter_analyzers[ch]))

\* FilterDelay_Update testing the external delay of this call in line 354
\* instead of the latched one.
FilterDelay_Update_UnlatchedDelay(s, filter_analyzers, external_delay, blocks_with_proper_filter_adaptation) ==
  LET latch == external_delay.has_value /\
                 (~s.external_delay_.has_value \/
                    s.external_delay_.delay # external_delay.delay)
  IN [s EXCEPT
        !.external_delay_ = IF latch THEN external_delay ELSE @,
        !.external_delay_reported_ = IF latch THEN TRUE ELSE @,
        !.filter_delay_blocks_ =
           IF BelowSeconds(blocks_with_proper_filter_adaptation, 2, 1) /\
                external_delay.has_value
             THEN s.delay_headroom_samples_ \div kBlockSize
             ELSE MinDelayBlocks(filter_analyzers, 2, filter_analyzers[1])]

\* AecState::FilterDelay::Update; filter_analyzers is the sequence of
\* DelayBlocks() of the analyzers.
FilterDelay_Update(s, filter_analyzers, external_delay, blocks_with_proper_filter_adaptation) ==
  LET latch == external_delay.has_value /\
                 (~s.external_delay_.has_value \/
                    s.external_delay_.delay # external_delay.delay)
      external_delay_ == IF latch THEN external_delay ELSE s.external_delay_
      delay_estimator_may_not_have_converged ==
        BelowSeconds(blocks_with_proper_filter_adaptation, 2, 1)
  IN [s EXCEPT
        !.external_delay_ = external_delay_,
        !.external_delay_reported_ = IF latch THEN TRUE ELSE @,
        !.filter_delay_blocks_ =
           IF delay_estimator_may_not_have_converged /\
                external_delay_.has_value
             THEN s.delay_headroom_samples_ \div kBlockSize
             ELSE MinDelayBlocks(filter_analyzers, 2, filter_analyzers[1])]

\* ---------------------------------------------------------- TransparentMode

\* TransparentMode_Construct leaving the two "blocks since" counters at 0
\* like the other counters.
TransparentMode_Construct_ZeroCounters(config) ==
  [bounded_erl_ |-> config.bounded_erl,
   linear_and_stable_echo_path_ |-> config.linear_and_stable_echo_path,
   capture_block_counter_ |-> 0,
   transparency_activated_ |-> FALSE,
   active_blocks_since_sane_filter_ |-> 0,
   sane_filter_observed_ |-> FALSE,
   finite_erl_recently_detected_ |-> FALSE,
   non_converged_sequence_size_ |-> 0,
   diverged_sequence_size_ |-> 0,
   active_non_converged_sequence_size_ |-> 0,
   num_converged_blocks_ |-> 0,
   recent_convergence_during_activity_ |-> FALSE,
   strong_not_saturated_render_blocks_ |-> 0]

\* AecState::TransparentMode::TransparentMode; the members not named in the
\* constructor start at their member initializers (0 and false).
TransparentMode_Construct(config) ==
  [bounded_erl_ |-> config.bounded_erl,
   linear_and_stable_echo_path_ |-> config.linear_and_stable_echo_path,
   capture_block_counter_ |-> 0,
   transparency_activated_ |-> FALSE,
   active_blocks_since_sane_filter_ |-> kBlocksSinceConsistentEstimateInit,
   sane_filter_observed_ |-> FALSE,
   finite_erl_recently_detected_ |-> FALSE,
   non_converged_sequence_size_ |-> kBlocksSinceConvergencedFilterInit,
   diverged_sequence_size_ |-> 0,
   active_non_converged_sequence_size_ |-> 0,
   num_converged_blocks_ |-> 0,
   recent_convergence_during_activity_ |-> FALSE,
   strong_not_saturated_render_blocks_ |-> 0]

\* TransparentMode_Reset zeroing num_converged_blocks_ too.
TransparentMode_Reset_ForgetsConvergedBlocks(s) ==
  [s EXCEPT !.non_converged_sequence_size_ = kBlocksSinceConvergencedFilterInit,
            !.diverged_sequence_size_ = 0,
            !.strong_not_saturated_render_blocks_ = 0,
            !.num_converged_blocks_ = 0,
            !.recent_convergence_during_activity_ =
               IF s.linear_and_stable_echo_path_ THEN FALSE ELSE @]

\* TransparentMode_Reset clearing recent_convergence_during_activity_
\* whatever linear_and_stable_echo_path_ is.
TransparentMode_Reset_AlwaysClearsConvergence(s) ==
  [s EXCEPT !.non_converged_sequence_size_ = kBlocksSinceConvergencedFilterInit,
            !.diverged_sequence_size_ = 0,
            !.strong_not_saturated_render_blocks_ = 0,
            !.recent_convergence_during_activity_ = FALSE]

\* TransparentMode_Reset restarting non_converged_sequence_size_ at 0
\* instead of at kBlocksSinceConvergencedFilterInit.
TransparentMode_Reset_RestartsSequence(s) ==
  [s EXCEPT !.non_converged_sequence_size_ = 0,
            !.diverged_sequence_size_ = 0,
            !.strong_not_saturated_render_blocks_ = 0,
            !.recent_convergence_during_activity_ =
               IF s.linear_and_stable_echo_path_ THEN FALSE ELSE @]

\* AecState::TransparentMode::Reset
TransparentMode_Reset(s) ==
  [s EXCEPT
     !.non_converged_sequence_size_ = kBlocksSinceConvergencedFilterInit,
     !.diverged_sequence_size_ = 0,
     !.strong_not_saturated_render_blocks_ = 0,
     !.recent_convergence_during_activity_ =
        IF s.linear_and_stable_echo_path_ THEN FALSE ELSE @]

\* TransparentMode_Decide without the bounded_erl_ test of line 439.
TransparentMode_Decide_IgnoresBoundedErl(bounded_erl, finite_erl_recently_detected, sane_filter_recently_seen, recent_convergence_during_activity, strong_not_saturated_render_blocks) ==
  IF finite_erl_recently_detected THEN FALSE
  ELSE IF sane_filter_recently_seen /\ recent_convergence_during_activity
    THEN FALSE
  ELSE ExceedsSeconds(strong_not_saturated_render_blocks, 6, 1)

\* TransparentMode_Decide with line 443 testing sane_filter_recently_seen
\* alone.
TransparentMode_Decide_SaneFilterAlone(bounded_erl, finite_erl_recently_detected, sane_filter_recently_seen, recent_convergence_during_activity, strong_not_saturated_render_blocks) ==
  IF bounded_erl THEN FALSE
  ELSE IF finite_erl_recently_detected THEN FALSE
  ELSE IF sane_filter_recently_seen THEN FALSE
  ELSE ExceedsSeconds(strong_not_saturated_render_blocks, 6, 1)

\* TransparentMode_Decide without the test of lines 446-447: transparent
\* whenever nothing speaks against it.
TransparentMode_Decide_NoRenderTest(bounded_erl, finite_erl_recently_detected, sane_filter_recently_seen, recent_convergence_during_activity, strong_not_saturated_render_blocks) ==
  IF bounded_erl THEN FALSE
  ELSE IF finite_erl_recently_detected THEN FALSE
  ELSE IF sane_filter_recently_seen /\ recent_convergence_during_activity THEN FALSE
  ELSE TRUE

\* Lines 439-449: the decision, from the members as lines 388-437 left them.
TransparentMode_Decide(bounded_erl, finite_erl_recently_detected, sane_filter_recently_seen, recent_convergence_during_activity, strong_not_saturated_render_blocks) ==
  IF bounded_erl THEN FALSE
  ELSE IF finite_erl_recently_detected THEN FALSE
  ELSE IF sane_filter_recently_seen /\ recent_convergence_during_activity
    THEN FALSE
  ELSE \* filter_should_have_converged
       ExceedsSeconds(strong_not_saturated_render_blocks, 6, 1)

\* AecState::TransparentMode::Update
TransparentMode_Update(s, filter_delay_blocks, any_filter_consistent, any_filter_converged, all_filters_diverged, active_render, saturated_capture) ==
  LET \* 388-390
      capture_block_counter == s.capture_block_counter_ + 1
      blocks == s.strong_not_saturated_render_blocks_ +
                  (IF active_render /\ ~saturated_capture THEN 1 ELSE 0)
      \* 392-397
      sane == any_filter_consistent /\ filter_delay_blocks < 5
      sane_filter_observed == s.sane_filter_observed_ \/ sane
      active_blocks_since_sane_filter ==
        IF sane THEN 0
        ELSE IF active_render THEN s.active_blocks_since_sane_filter_ + 1
        ELSE s.active_blocks_since_sane_filter_
      \* 399-406
      sane_filter_recently_seen ==
        IF ~sane_filter_observed
          THEN ~ExceedsSeconds(capture_block_counter, 5, 1)
          ELSE ~ExceedsSeconds(active_blocks_since_sane_filter, 30, 1)
      \* 408-422
      non_converged_1 ==
        IF any_filter_converged THEN 0
        ELSE s.non_converged_sequence_size_ + 1
      num_converged_blocks ==
        IF any_filter_converged THEN s.num_converged_blocks_ + 1
        ELSE IF ExceedsSeconds(non_converged_1, 20, 1) THEN 0
        ELSE s.num_converged_blocks_
      active_non_converged_sequence_size ==
        IF any_filter_converged THEN 0
        ELSE IF active_render
          THEN s.active_non_converged_sequence_size_ + 1
        ELSE s.active_non_converged_sequence_size_
      recent_convergence_during_activity ==
        IF any_filter_converged THEN TRUE
        ELSE IF active_render /\
                ExceedsSeconds(active_non_converged_sequence_size, 60, 1)
          THEN FALSE
        ELSE s.recent_convergence_during_activity_
      \* 424-430
      diverged_sequence_size ==
        IF ~all_filters_diverged THEN 0 ELSE s.diverged_sequence_size_ + 1
      non_converged_sequence_size ==
        IF all_filters_diverged /\ diverged_sequence_size >= 60
          THEN kBlocksSinceConvergencedFilterInit
          ELSE non_converged_1
      \* 432-437
      finite_erl_1 ==
        IF ExceedsSeconds(active_non_converged_sequence_size, 60, 1)
          THEN FALSE ELSE s.finite_erl_recently_detected_
      finite_erl_recently_detected ==
        IF num_converged_blocks > 50 THEN TRUE ELSE finite_erl_1
  IN [s EXCEPT
        !.capture_block_counter_ = capture_block_counter,
        !.strong_not_saturated_render_blocks_ = blocks,
        !.sane_filter_observed_ = sane_filter_observed,
        !.active_blocks_since_sane_filter_ = active_blocks_since_sane_filter,
        !.non_converged_sequence_size_ = non_converged_sequence_size,
        !.num_converged_blocks_ = num_converged_blocks,
        !.active_non_converged_sequence_size_ =
           active_non_converged_sequence_size,
        !.recent_convergence_during_activity_ =
           recent_convergence_during_activity,
        !.diverged_sequence_size_ = diverged_sequence_size,
        !.finite_erl_recently_detected_ = finite_erl_recently_detected,
        !.transparency_activated_ =
           TransparentMode_Decide(s.bounded_erl_,
                                  finite_erl_recently_detected,
                                  sane_filter_recently_seen,
                                  recent_convergence_during_activity,
                                  blocks)]

\* ------------------------------------------------- FilteringQualityAnalyzer

\* AecState::FilteringQualityAnalyzer::FilteringQualityAnalyzer: the members
\* start at their member initializers.
FilteringQualityAnalyzer_Construct ==
  [usable_linear_estimate_ |-> FALSE,
   filter_update_blocks_since_reset_ |-> 0,
   filter_update_blocks_since_start_ |-> 0,
   convergence_seen_ |-> FALSE]

\* FilteringQualityAnalyzer_Reset forgetting the convergence seen as well.
FilteringQualityAnalyzer_Reset_ForgetsConvergence(s) ==
  [s EXCEPT !.usable_linear_estimate_ = FALSE,
            !.filter_update_blocks_since_reset_ = 0,
            !.convergence_seen_ = FALSE]

\* AecState::FilteringQualityAnalyzer::Reset
FilteringQualityAnalyzer_Reset(s) ==
  [s EXCEPT !.usable_linear_estimate_ = FALSE,
            !.filter_update_blocks_since_reset_ = 0]

\* SufficientDataToConvergeAtStartup with the 0.2f of line 481 for the 0.4f
\* of line 478.
SufficientDataToConvergeAtStartup_ResetLimit(since_start) ==
  ExceedsSeconds(since_start, 1, 5)

\* Lines 477-478: filter_update_blocks_since_start_ > kNumBlocksPerSecond *
\* 0.4f.
SufficientDataToConvergeAtStartup(since_start) ==
  ExceedsSeconds(since_start, 2, 5)

\* SufficientDataToConvergeAtReset without the test of the counter since
\* reset.
SufficientDataToConvergeAtReset_StartOnly(since_start, since_reset) ==
  SufficientDataToConvergeAtStartup(since_start)

\* Lines 479-481: ... && filter_update_blocks_since_reset_ >
\* kNumBlocksPerSecond * 0.2f.
SufficientDataToConvergeAtReset(since_start, since_reset) ==
  SufficientDataToConvergeAtStartup(since_start) /\
    ExceedsSeconds(since_reset, 1, 5)

\* FilteringQualityAnalyzer_Update without line 493.
FilteringQualityAnalyzer_Update_IgnoresTransparentMode(s, active_render, transparent_mode, saturated_capture, external_delay, any_filter_converged) ==
  LET filter_update == active_render /\ ~saturated_capture
      since_reset == s.filter_update_blocks_since_reset_ +
                       (IF filter_update THEN 1 ELSE 0)
      since_start == s.filter_update_blocks_since_start_ +
                       (IF filter_update THEN 1 ELSE 0)
      convergence_seen == s.convergence_seen_ \/ any_filter_converged
  IN [s EXCEPT !.filter_update_blocks_since_reset_ = since_reset,
               !.filter_update_blocks_since_start_ = since_start,
               !.convergence_seen_ = convergence_seen,
               !.usable_linear_estimate_ =
                  /\ SufficientDataToConvergeAtStartup(since_start)
                  /\ SufficientDataToConvergeAtReset(since_start, since_reset)
                  /\ (external_delay.has_value \/ convergence_seen)]

\* AecState::FilteringQualityAnalyzer::Update
FilteringQualityAnalyzer_Update(s, active_render, transparent_mode, saturated_capture, external_delay, any_filter_converged) ==
  LET filter_update == active_render /\ ~saturated_capture
      since_reset == s.filter_update_blocks_since_reset_ +
                       (IF filter_update THEN 1 ELSE 0)
      since_start == s.filter_update_blocks_since_start_ +
                       (IF filter_update THEN 1 ELSE 0)
      convergence_seen == s.convergence_seen_ \/ any_filter_converged
      usable_1 == SufficientDataToConvergeAtStartup(since_start) /\
                    SufficientDataToConvergeAtReset(since_start, since_reset)
      usable_2 == usable_1 /\ (external_delay.has_value \/ convergence_seen)
  IN [s EXCEPT !.filter_update_blocks_since_reset_ = since_reset,
               !.filter_update_blocks_since_start_ = since_start,
               !.convergence_seen_ = convergence_seen,
               !.usable_linear_estimate_ = usable_2 /\ ~transparent_mode]

\* ------------------------------------------------------- SaturationDetector

\* SubtractorOutput: the two members read in this file.
SubtractorOutput(s_main_max_abs, s_shadow_max_abs) == [s_main_max_abs |-> s_main_max_abs, s_shadow_max_abs |-> s_shadow_max_abs]

\* fabsf
Abs(v) == IF v < 0 THEN -v ELSE v

\* Lines 509-514: the loop over the channels of subtractor_output from ch on.
RECURSIVE AnyPeakSaturated(_, _, _)
AnyPeakSaturated(subtractor_output, ch, acc) ==
  IF ch > Len(subtractor_output)
    THEN acc
    ELSE AnyPeakSaturated(subtractor_output, ch + 1,
           acc \/ (subtractor_output[ch].s_main_max_abs > 20000 \/
                   subtractor_output[ch].s_shadow_max_abs > 20000))

\* Lines 516-521: the largest |sample| of the channels of x from ch on and of
\* the samples of a channel from k on.
RECURSIVE MaxAbsSample(_, _, _, _)
MaxAbsSample(x, ch, k, acc) ==
  IF ch > Len(x) THEN acc
  ELSE IF k > Len(x[ch]) THEN MaxAbsSample(x, ch + 1, 1, acc)
  ELSE MaxAbsSample(x, ch, k + 1, Max(acc, Abs(x[ch][k])))

\* SaturationDetector_Update without line 502: the flag of the block before
\* is kept by the "saturated_echo_ ||" of lines 510 and 525.
SaturationDetector_Update_KeepsOldFlag(s, x, saturated_capture, usable_linear_estimate, subtractor_output, echo_path_gain) ==
  IF ~saturated_capture
    THEN s
  ELSE IF usable_linear_estimate
    THEN [s EXCEPT !.saturated_echo_ =
            AnyPeakSaturated(subtractor_output, 1, s.saturated_echo_)]
  ELSE LET max_sample == MaxAbsSample(x, 1, 1, 0)
           peak_echo_amplitude == max_sample * echo_path_gain * 10
       IN [s EXCEPT !.saturated_echo_ = s.saturated_echo_ \/ peak_echo_amplitude > 32000]

\* SaturationDetector_Update without the early return of lines 503-505.
SaturationDetector_Update_IgnoresCapture(s, x, saturated_capture, usable_linear_estimate, subtractor_output, echo_path_gain) ==
  IF usable_linear_estimate
    THEN [s EXCEPT !.saturated_echo_ =
            AnyPeakSaturated(subtractor_output, 1, FALSE)]
  ELSE LET max_sample == MaxAbsSample(x, 1, 1, 0)
           peak_echo_amplitude == max_sample * echo_path_gain * 10
       IN [s EXCEPT !.saturated_echo_ = peak_echo_amplitude > 32000]

\* AecState::SaturationDetector::Update
SaturationDetector_Update(s, x, saturated_capture, usable_linear_estimate, subtractor_output, echo_path_gain) ==
  IF ~saturated_capture
    THEN [s EXCEPT !.saturated_echo_ = FALSE]
  ELSE IF usable_linear_estimate
    THEN [s EXCEPT !.saturated_echo_ =
            AnyPeakSaturated(subtractor_output, 1, FALSE)]
  ELSE LET max_sample == MaxAbsSample(x, 1, 1, 0)
           peak_echo_amplitude == max_sample * echo_path_gain * 10
       IN [s EXCEPT !.saturated_echo_ = peak_echo_amplitude > 32000]

\* SaturationDetector: saturated_echo_ starts false (member initializer).
SaturationDetector_Construct == [saturated_echo_ |-> FALSE]

\* ----------------------------------------------------------------- AecState

\* The parts of EchoCanceller3Config this file reads and that decide the
\* state modelled here, and the constructor's num_capture_channels.
Configs ==
  [conservative_initial_phase : BOOLEAN,
   initial_state_seconds : InitialStateSeconds,
   use_linear_filter : BOOLEAN,
   delay_headroom_samples : DelayHeadroomSamples,
   bounded_erl : BOOLEAN,
   linear_and_stable_echo_path : BOOLEAN,
   active_render_limit : {100},
   num_capture_channels : 1..NumCaptureChannels]

\* EchoCanceller3Config's defaults for those parts, one capture channel.
DefaultConfig ==
  [conservative_initial_phase |-> FALSE,
   initial_state_seconds |-> [n |-> 5, d |-> 2],
   use_linear_filter |-> TRUE,
   delay_headroom_samples |-> 32,
   bounded_erl |-> FALSE,
   linear_and_stable_echo_path |-> FALSE,
   active_render_limit |-> 100,
   num_capture_channels |-> 1]

\* No call issued to any collaborator.
NoCalls == [filter_analyzers_ |-> <<>>, subtractor_output_analyzers_ |-> <<>>, erle_estimator_ |-> <<>>, erl_estimator_ |-> <<>>]

\* AecState::AecState, at block rate `rate`.
AecState_Construct(config, rate) ==
  /\ kNumBlocksPerSecond = rate
  /\ config_ = config
  /\ capture_signal_saturation_ = FALSE
  /\ strong_not_saturated_render_blocks_ = 0
  /\ blocks_with_active_render_ = 0
  /\ initial_state_ = InitialState_Construct(config)
  /\ delay_state_ = FilterDelay_Construct(config)
  /\ transparent_state_ = TransparentMode_Construct(config)
  /\ filter_quality_state_ = FilteringQualityAnalyzer_Construct
  /\ saturation_detector_ = SaturationDetector_Construct
  /\ collaborators = NoCalls
  /\ call = [name |-> "AecState::AecState"]

\* What a call on one sub-tracker leaves alone.
AecStateMembersUnchanged == UNCHANGED <<kNumBlocksPerSecond, config_, capture_signal_saturation_, strong_not_saturated_render_blocks_, blocks_with_active_render_, collaborators>>

\* aec_state.h: the accessors used in this file and by the properties.
SaturatedCapture == capture_signal_saturation_

SaturatedEcho == saturation_detector_.saturated_echo_

TransparentMode == transparent_state_.transparency_activated_

UsableLinearEstimate == filter_quality_state_.usable_linear_estimate_ /\ config_.use_linear_filter

\* AecState::ErleUncertainty: absl::optional<float>, 1.f or nullopt.
ErleUncertainty == IF SaturatedEcho THEN [has_value |-> TRUE, value |-> 1] ELSE [has_value |-> FALSE, value |-> 0]

\* --------------------------------------------------- AecState's operations

\* EchoPathVariability::DelayAdjustment
DelayAdjustments == {"kNone", "kBufferFlush", "kNewDetectedDelay"}

EchoPathVariabilities == [delay_change : DelayAdjustments, gain_change : BOOLEAN]

\* IsFullReset for a newly detected delay only.
IsFullReset_NewDelayOnly(echo_path_variability) == echo_path_variability.delay_change = "kNewDetectedDelay"

\* Lines 150-151: the condition of the full reset.
IsFullReset(echo_path_variability) == echo_path_variability.delay_change # "kNone"

\* IsGainReset whatever the variability.
IsGainReset_Always(echo_path_variability) == TRUE

\* Lines 153: the condition of erle_estimator_.Reset(false), tested when
\* there is no full reset.
IsGainReset(echo_path_variability) == echo_path_variability.gain_change

\* One call issued to the collaborator of every capture channel.
EachChannel(method) == [ch \in 1..config_.num_capture_channels |-> <<method>>]

\* AecState::HandleEchoPathChange
HandleEchoPathChange(echo_path_variability) ==
  /\ IF IsFullReset(echo_path_variability)
       THEN \* full_reset, lines 133-145
            /\ capture_signal_saturation_' = FALSE
            /\ strong_not_saturated_render_blocks_' = 0
            /\ blocks_with_active_render_' = 0
            /\ initial_state_' = InitialState_Reset(initial_state_)
            /\ transparent_state_' = TransparentMode_Reset(transparent_state_)
            /\ filter_quality_state_' = FilteringQualityAnalyzer_Reset(filter_quality_state_)
            /\ collaborators' = [filter_analyzers_ |-> EachChannel("Reset"),
                                 subtractor_output_analyzers_ |-> EachChannel("HandleEchoPathChange"),
                                 erle_estimator_ |-> <<"Reset(true)">>,
                                 erl_estimator_ |-> <<"Reset">>]
       ELSE /\ UNCHANGED <<capture_signal_saturation_, strong_not_saturated_render_blocks_, blocks_with_active_render_, initial_state_, transparent_state_, filter_quality_state_>>
            /\ collaborators' = [filter_analyzers_ |-> <<>>,
                                 subtractor_output_analyzers_ |-> EachChannel("HandleEchoPathChange"),
                                 erle_estimator_ |-> IF IsGainReset(echo_path_variability) THEN <<"Reset(false)">> ELSE <<>>,
                                 erl_estimator_ |-> <<>>]
  /\ call' = [name |-> "AecState::HandleEchoPathChange", echo_path_variability |-> echo_path_variability]
  /\ UNCHANGED <<kNumBlocksPerSecond, config_, delay_state_, saturation_detector_>>

\* Lines 178-195: what the loop over the capture channels accumulates from
\* the values read back from the analyzers of channel ch on.
RECURSIVE AnalyzeFilters(_, _, _)
AnalyzeFilters(readings, ch, acc) ==
  IF ch > Len(readings)
    THEN acc
    ELSE AnalyzeFilters(readings, ch + 1,
           [any_filter_converged |-> acc.any_filter_converged \/ readings[ch].ConvergedFilter,
            all_filters_diverged |-> acc.all_filters_diverged /\ readings[ch].DivergedFilter,
            any_filter_consistent |-> acc.any_filter_consistent \/ readings[ch].Consistent,
            max_echo_path_gain |-> Max(acc.max_echo_path_gain, readings[ch].Gain)])

\* Lines 178-181: the values before the loop.
NoFilterAnalyzed == [any_filter_converged |-> FALSE, all_filters_diverged |-> TRUE, any_filter_consistent |-> FALSE, max_echo_path_gain |-> 0]

\* std::inner_product of a channel of the block with itself, from sample k.
RECURSIVE RenderEnergy(_, _, _)
RenderEnergy(channel, k, acc) ==
  IF k > Len(channel) THEN acc
  ELSE RenderEnergy(channel, k + 1, acc + channel[k] * channel[k])

\* Lines 207-218: some render channel of the block has more energy than
\* active_render_limit^2 * kFftLengthBy2.
ActiveRender(aligned_render_block, active_render_limit) ==
  \E ch \in 1..Len(aligned_render_block) :
    RenderEnergy(aligned_render_block[ch], 1, 0) > (active_render_limit * active_render_limit) * kFftLengthBy2

\* StrongNotSaturatedRenderBlock without the SaturatedCapture() test.
StrongNotSaturatedRenderBlock_IgnoresSaturation(active_render, saturated_capture) ==
  IF active_render THEN 1 ELSE 0

\* Lines 219-221: what a block adds to strong_not_saturated_render_blocks_.
StrongNotSaturatedRenderBlock(active_render, saturated_capture) ==
  IF active_render /\ ~saturated_capture THEN 1 ELSE 0

\* ErleCalls without the reset of lines 237-239.
ErleCalls_NeverResets(transition_triggered) == <<"Update">>

\* Lines 237-252: the calls on the ERLE estimator in one Update.
ErleCalls(transition_triggered) ==
  IF transition_triggered THEN <<"Reset(false)", "Update">> ELSE <<"Update">>

\* AecState::Update.  readings[ch] holds what the analyzers of capture
\* channel ch report once updated (ConvergedFilter, DivergedFilter,
\* Consistent, Gain, DelayBlocks); aligned_render_block is
\* render_buffer.Block(-delay_state_.DirectPathFilterDelay())[0].
AecState_Update(external_delay, readings, aligned_render_block, subtractor_output) ==
  LET analysis == AnalyzeFilters(readings, 1, NoFilterAnalyzed)
      delay_state == IF config_.use_linear_filter
                       THEN FilterDelay_Update(delay_state_, [ch \in 1..Len(readings) |-> readings[ch].DelayBlocks], external_delay, strong_not_saturated_render_blocks_)
                       ELSE delay_state_
      active_render == ActiveRender(aligned_render_block, config_.active_render_limit)
      transparent_state == TransparentMode_Update(transparent_state_, delay_state.filter_delay_blocks_, analysis.any_filter_consistent, analysis.any_filter_converged, analysis.all_filters_diverged, active_render, SaturatedCapture)
  IN /\ delay_state_' = delay_state
     /\ blocks_with_active_render_' = blocks_with_active_render_ + (IF active_render THEN 1 ELSE 0)
     /\ strong_not_saturated_render_blocks_' = strong_not_saturated_render_blocks_ + StrongNotSaturatedRenderBlock(active_render, SaturatedCapture)
     /\ collaborators' = [filter_analyzers_ |-> EachChannel("Update"),
                          subtractor_output_analyzers_ |-> EachChannel("Update"),
                          erle_estimator_ |-> ErleCalls(initial_state_.transition_triggered_),
                          erl_estimator_ |-> <<"Update">>]
     /\ saturation_detector_' = SaturationDetector_Update(saturation_detector_, aligned_render_block, SaturatedCapture, UsableLinearEstimate, subtractor_output, analysis.max_echo_path_gain)
     /\ initial_state_' = InitialState_Update(initial_state_, active_render, SaturatedCapture)
     /\ transparent_state_' = transparent_state
     /\ filter_quality_state_' = FilteringQualityAnalyzer_Update(filter_quality_state_, active_render, transparent_state.transparency_activated_, SaturatedCapture, external_delay, analysis.any_filter_converged)
     /\ call' = [name |-> "AecState::Update", external_delay |-> external_delay, any_filter_converged |-> analysis.any_filter_converged, any_filter_consistent |-> analysis.any_filter_consistent, aligned_render_block |-> aligned_render_block]
     /\ UNCHANGED <<kNumBlocksPerSecond, config_, capture_signal_saturation_>>

\* AecState::UpdateCaptureSaturation (aec_state.h): stores the flag that
\* SaturatedCapture() returns.
UpdateCaptureSaturation(capture_signal_saturation) ==
  /\ capture_signal_saturation_' = capture_signal_saturation
  /\ call' = [name |-> "AecState::UpdateCaptureSaturation"]
  /\ UNCHANGED <<kNumBlocksPerSecond, config_, strong_not_saturated_render_blocks_, blocks_with_active_render_, initial_state_, delay_state_, transparent_state_, filter_quality_state_, saturation_detector_, collaborators>>

\* ------------------------------------- the sub-trackers, called on their own

\* TransparentMode::Update with any arguments, for at most MaxBlocks blocks.
Call_TransparentMode_Update ==
  /\ transparent_state_.capture_block_counter_ < MaxBlocks
  /\ \E filter_delay_blocks \in FilterDelays, any_filter_consistent \in BOOLEAN, any_filter_converged \in BOOLEAN, all_filters_diverged \in BOOLEAN, active_render \in BOOLEAN, saturated_capture \in BOOLEAN :
       transparent_state_' = TransparentMode_Update(transparent_state_, filter_delay_blocks, any_filter_consistent, any_filter_converged, all_filters_diverged, active_render, saturated_capture)
  /\ call' = [name |-> "TransparentMode::Update"]
  /\ AecStateMembersUnchanged
  /\ UNCHANGED <<initial_state_, delay_state_, filter_quality_state_, saturation_detector_>>

\* TransparentMode::Update while no filter converges and render is active.
Call_TransparentMode_Update_NeverConverged ==
  /\ transparent_state_.capture_block_counter_ < MaxBlocks
  /\ \E filter_delay_blocks \in FilterDelays, any_filter_consistent \in BOOLEAN, all_filters_diverged \in BOOLEAN, saturated_capture \in BOOLEAN :
       transparent_state_' = TransparentMode_Update(transparent_state_, filter_delay_blocks, any_filter_consistent, FALSE, all_filters_diverged, TRUE, saturated_capture)
  /\ call' = [name |-> "TransparentMode::Update"]
  /\ AecStateMembersUnchanged
  /\ UNCHANGED <<initial_state_, delay_state_, filter_quality_state_, saturation_detector_>>

Call_TransparentMode_Reset ==
  /\ transparent_state_' = TransparentMode_Reset(transparent_state_)
  /\ call' = [name |-> "TransparentMode::Reset"]
  /\ AecStateMembersUnchanged
  /\ UNCHANGED <<initial_state_, delay_state_, filter_quality_state_, saturation_detector_>>

\* The number of consecutive TransparentMode::Update calls with a converged
\* filter that end with call c; Reset calls between them do not break the run.
ConvergedRun(c) == IF "converged_run" \in DOMAIN c THEN c.converged_run ELSE 0

\* TransparentMode::Update with active render, no saturation and no
\* consistent filter, converged or not, for the first MaxBlocks blocks.
Call_TransparentMode_Update_BeforeRun ==
  /\ transparent_state_.capture_block_counter_ < MaxBlocks
  /\ \E any_filter_converged \in BOOLEAN :
       /\ transparent_state_' = TransparentMode_Update(transparent_state_, 5, FALSE, any_filter_converged, FALSE, TRUE, FALSE)
       /\ call' = [name |-> "TransparentMode::Update", converged_run |-> IF any_filter_converged THEN ConvergedRun(call) + 1 ELSE 0]
  /\ AecStateMembersUnchanged
  /\ UNCHANGED <<initial_state_, delay_state_, filter_quality_state_, saturation_detector_>>

\* TransparentMode::Update with a converged filter, no consistent filter
\* and no saturation, from then on.
Call_TransparentMode_Update_Converged ==
  /\ transparent_state_.capture_block_counter_ >= MaxBlocks
  /\ ConvergedRun(call) < MaxConvergedRun
  /\ \E active_render \in BOOLEAN :
       transparent_state_' = TransparentMode_Update(transparent_state_, 5, FALSE, TRUE, FALSE, active_render, FALSE)
  /\ call' = [name |-> "TransparentMode::Update", converged_run |-> ConvergedRun(call) + 1]
  /\ AecStateMembersUnchanged
  /\ UNCHANGED <<initial_state_, delay_state_, filter_quality_state_, saturation_detector_>>

\* TransparentMode::Reset between the Update calls of a run.
Call_TransparentMode_Reset_InRun ==
  /\ transparent_state_' = TransparentMode_Reset(transparent_state_)
  /\ call' = [name |-> "TransparentMode::Reset", converged_run |-> ConvergedRun(call)]
  /\ AecStateMembersUnchanged
  /\ UNCHANGED <<initial_state_, delay_state_, filter_quality_state_, saturation_detector_>>

\* TransparentMode::Update with active render, saturated capture and no
\* consistent or diverged filter, for the first MaxConvergedRun blocks: the
\* filter is converged or not in the first MaxBlocks of them and converged
\* in the others. The call records finite_erl_recently_detected_ as the
\* call found it.
Call_TransparentMode_Update_Converging ==
  /\ transparent_state_.capture_block_counter_ < MaxConvergedRun
  /\ \E any_filter_converged \in BOOLEAN :
       /\ transparent_state_.capture_block_counter_ >= MaxBlocks => any_filter_converged
       /\ transparent_state_' = TransparentMode_Update(transparent_state_, 5, FALSE, any_filter_converged, FALSE, TRUE, TRUE)
  /\ call' = [name |-> "TransparentMode::Update", finite_erl_recently_detected_before |-> transparent_state_.finite_erl_recently_detected_]
  /\ AecStateMembersUnchanged
  /\ UNCHANGED <<initial_state_, delay_state_, filter_quality_state_, saturation_detector_>>

\* TransparentMode::Update with saturated capture, all filters diverged
\* and none converged or consistent, render active or not, for the
\* MaxNonConvergedRun blocks that follow.
Call_TransparentMode_Update_NonConverged ==
  /\ transparent_state_.capture_block_counter_ >= MaxConvergedRun
  /\ transparent_state_.capture_block_counter_ < MaxConvergedRun + MaxNonConvergedRun
  /\ \E active_render \in BOOLEAN :
       transparent_state_' = TransparentMode_Update(transparent_state_, 5, FALSE, FALSE, TRUE, active_render, TRUE)
  /\ call' = [name |-> "TransparentMode::Update", finite_erl_recently_detected_before |-> transparent_state_.finite_erl_recently_detected_]
  /\ AecStateMembersUnchanged
  /\ UNCHANGED <<initial_state_, delay_state_, filter_quality_state_, saturation_detector_>>

\* FilteringQualityAnalyzer::Update with any arguments, until the counter
\* since start is FilterUpdateSlack blocks past its threshold.
Call_FilteringQualityAnalyzer_Update ==
  /\ ~SufficientDataToConvergeAtStartup(filter_quality_state_.filter_update_blocks_since_start_ - FilterUpdateSlack)
  /\ \E active_render \in BOOLEAN, transparent_mode \in BOOLEAN, saturated_capture \in BOOLEAN, external_delay \in OptionalDelays, any_filter_converged \in BOOLEAN :
       /\ filter_quality_state_' = FilteringQualityAnalyzer_Update(filter_quality_state_, active_render, transparent_mode, saturated_capture, external_delay, any_filter_converged)
       /\ call' = [name |-> "FilteringQualityAnalyzer::Update", transparent_mode |-> transparent_mode, external_delay |-> external_delay]
  /\ AecStateMembersUnchanged
  /\ UNCHANGED <<initial_state_, delay_state_, transparent_state_, saturation_detector_>>

Call_FilteringQualityAnalyzer_Reset ==
  /\ filter_quality_state_' = FilteringQualityAnalyzer_Reset(filter_quality_state_)
  /\ call' = [name |-> "FilteringQualityAnalyzer::Reset"]
  /\ AecStateMembersUnchanged
  /\ UNCHANGED <<initial_state_, delay_state_, transparent_state_, saturation_detector_>>

\* InitialState::Update with any arguments, until the counter is
\* InitialStateSlack blocks past the threshold.
Call_InitialState_Update ==
  /\ InitialState_BelowThreshold(initial_state_, initial_state_.strong_not_saturated_render_blocks_ - InitialStateSlack)
  /\ \E active_render \in BOOLEAN, saturated_capture \in BOOLEAN :
       initial_state_' = InitialState_Update(initial_state_, active_render, saturated_capture)
  /\ call' = [name |-> "InitialState::Update"]
  /\ AecStateMembersUnchanged
  /\ UNCHANGED <<delay_state_, transparent_state_, filter_quality_state_, saturation_detector_>>

Call_InitialState_Reset ==
  /\ initial_state_' = InitialState_Reset(initial_state_)
  /\ call' = [name |-> "InitialState::Reset"]
  /\ AecStateMembersUnchanged
  /\ UNCHANGED <<delay_state_, transparent_state_, filter_quality_state_, saturation_detector_>>

\* blocks_with_proper_filter_adaptation values on both sides of
\* 2 * kNumBlocksPerSecond.
AdaptationBlocks == {0, 2 * kNumBlocksPerSecond - 1, 2 * kNumBlocksPerSecond, 2 * kNumBlocksPerSecond + 1}

\* FilterDelay::Update with any arguments: one DelayBlocks() per channel.
Call_FilterDelay_Update ==
  /\ \E filter_analyzers \in [1..NumCaptureChannels -> FilterDelays], external_delay \in OptionalDelays, blocks \in AdaptationBlocks :
       /\ delay_state_' = FilterDelay_Update(delay_state_, filter_analyzers, external_delay, blocks)
       /\ call' = [name |-> "FilterDelay::Update", filter_analyzers |-> filter_analyzers, external_delay |-> external_delay, blocks_with_proper_filter_adaptation |-> blocks]
  /\ AecStateMembersUnchanged
  /\ UNCHANGED <<initial_state_, transparent_state_, filter_quality_state_, saturation_detector_>>

\* SaturationDetector::Update with any arguments: one sample per render
\* channel, one subtractor output per capture channel.
Call_SaturationDetector_Update ==
  /\ \E x \in [DetectorChannels -> {<<v>> : v \in DetectorSamples}], saturated_capture \in BOOLEAN, usable_linear_estimate \in BOOLEAN, peaks \in [DetectorChannels -> DetectorPeaks], echo_path_gain \in DetectorGains :
       LET subtractor_output == [ch \in DetectorChannels |-> SubtractorOutput(peaks[ch][1], peaks[ch][2])]
       IN /\ saturation_detector_' = SaturationDetector_Update(saturation_detector_, x, saturated_capture, usable_linear_estimate, subtractor_output, echo_path_gain)
          /\ call' = [name |-> "SaturationDetector::Update", x |-> x, saturated_capture |-> saturated_capture, usable_linear_estimate |-> usable_linear_estimate, subtractor_output |-> subtractor_output, echo_path_gain |-> echo_path_gain]
  /\ AecStateMembersUnchanged
  /\ UNCHANGED <<initial_state_, delay_state_, transparent_state_, filter_quality_state_>>

\* ------------------------------------------------------ AecState, called

\* What the analyzers of one capture channel can report after their Update.
FilterReadings == [ConvergedFilter : BOOLEAN, DivergedFilter : BOOLEAN, Consistent : BOOLEAN, Gain : EchoPathGains, DelayBlocks : FilterDelays]

\* The reports of a filter that has learnt nothing.
UntrainedFilterReadings == {r \in FilterReadings : ~r.ConvergedFilter /\ ~r.DivergedFilter /\ ~r.Consistent}

\* Aligned render blocks: one render channel, one sample.
RenderBlocks == {<< <<v>> >> : v \in RenderSamples}

SubtractorOutputs == {SubtractorOutput(p[1], p[2]) : p \in SubtractorPeaks}

\* AecState::Update with or without an external delay, readings of
\* Readings for every capture channel, any render block and any subtractor
\* outputs, for at most max_blocks blocks.
Call_AecState_Update(Readings, max_blocks) ==
  /\ transparent_state_.capture_block_counter_ < max_blocks
  /\ \E external_delay \in {nullopt, DelayEstimate(1)}, readings \in [1..config_.num_capture_channels -> Readings], aligned_render_block \in RenderBlocks, subtractor_output \in [1..config_.num_capture_channels -> SubtractorOutputs] :
       AecState_Update(external_delay, readings, aligned_render_block, subtractor_output)

Call_HandleEchoPathChange == \E echo_path_variability \in EchoPathVariabilities : HandleEchoPathChange(echo_path_variability)

Call_UpdateCaptureSaturation == \E capture_signal_saturation \in BOOLEAN : UpdateCaptureSaturation(capture_signal_saturation)

\* ------------------------------------------------------------ specifications

\* TransparentMode on its own, scaled rate.
InitTransparentMode == \E bounded_erl \in BOOLEAN, linear_and_stable_echo_path \in BOOLEAN : AecState_Construct([DefaultConfig EXCEPT !.bounded_erl = bounded_erl, !.linear_and_stable_echo_path = linear_and_stable_echo_path], ScaledBlockRate)

NextTransparentMode == Call_TransparentMode_Update \/ Call_TransparentMode_Reset

SpecTransparentMode == InitTransparentMode /\ [][NextTransparentMode]_vars

\* TransparentMode on its own, real rate.
InitTransparentModeAtBlockRate == \E bounded_erl \in BOOLEAN, linear_and_stable_echo_path \in BOOLEAN : AecState_Construct([DefaultConfig EXCEPT !.bounded_erl = bounded_erl, !.linear_and_stable_echo_path = linear_and_stable_echo_path], BlockRate)

SpecTransparentModeAtBlockRate == InitTransparentModeAtBlockRate /\ [][NextTransparentMode]_vars

\* TransparentMode fed by filters that never converge, with render active.
NextNeverConverged == Call_TransparentMode_Update_NeverConverged \/ Call_TransparentMode_Reset

SpecNeverConverged == InitTransparentMode /\ [][NextNeverConverged]_vars

\* TransparentMode fed by a filter that ends up converging, scaled rate.
InitConvergedRun == \E linear_and_stable_echo_path \in BOOLEAN : AecState_Construct([DefaultConfig EXCEPT !.linear_and_stable_echo_path = linear_and_stable_echo_path], ScaledBlockRate)

NextConvergedRun == Call_TransparentMode_Update_BeforeRun \/ Call_TransparentMode_Update_Converged \/ Call_TransparentMode_Reset_InRun

SpecConvergedRun == InitConvergedRun /\ [][NextConvergedRun]_vars

\* TransparentMode fed by a filter that converges and then diverges for
\* good, scaled rate.
NextNonConvergedRun == Call_TransparentMode_Update_Converging \/ Call_TransparentMode_Update_NonConverged \/ Call_TransparentMode_Reset

SpecNonConvergedRun == InitConvergedRun /\ [][NextNonConvergedRun]_vars

\* FilteringQualityAnalyzer on its own, real rate.
InitFilteringQuality == AecState_Construct(DefaultConfig, BlockRate)

NextFilteringQuality == Call_FilteringQualityAnalyzer_Update \/ Call_FilteringQualityAnalyzer_Reset

SpecFilteringQuality == InitFilteringQuality /\ [][NextFilteringQuality]_vars

\* InitialState on its own, real rate.
InitInitialState == \E conservative_initial_phase \in BOOLEAN, initial_state_seconds \in InitialStateSeconds : AecState_Construct([DefaultConfig EXCEPT !.conservative_initial_phase = conservative_initial_phase, !.initial_state_seconds = initial_state_seconds], BlockRate)

NextInitialState == Call_InitialState_Update \/ Call_InitialState_Reset

SpecInitialState == InitInitialState /\ [][NextInitialState]_vars

\* FilterDelay on its own, real rate.
InitFilterDelay == \E delay_headroom_samples \in DelayHeadroomSamples : AecState_Construct([DefaultConfig EXCEPT !.delay_headroom_samples = delay_headroom_samples], BlockRate)

NextFilterDelay == Call_FilterDelay_Update

SpecFilterDelay == InitFilterDelay /\ [][NextFilterDelay]_vars

\* SaturationDetector on its own.
InitSaturationDetector == AecState_Construct(DefaultConfig, BlockRate)

NextSaturationDetector == Call_SaturationDetector_Update

SpecSaturationDetector == InitSaturationDetector /\ [][NextSaturationDetector]_vars

\* AecState: initial state of 1 second, one capture channel, scaled rate.
Init == AecState_Construct([DefaultConfig EXCEPT !.initial_state_seconds = [n |-> 1, d |-> 1]], ScaledBlockRate)

\* AecState with every kind of filter reading.
Call_AecState_Update_Any == Call_AecState_Update(FilterReadings, MaxAecBlocks)

Next == Call_AecState_Update_Any \/ Call_HandleEchoPathChange \/ Call_UpdateCaptureSaturation

Spec == Init /\ [][Next]_vars

\* AecState with and without the linear filter (config.filter.use_linear_filter).
InitLinearFilterOption == \E use_linear_filter \in BOOLEAN : AecState_Construct([DefaultConfig EXCEPT !.initial_state_seconds = [n |-> 1, d |-> 1], !.use_linear_filter = use_linear_filter], ScaledBlockRate)

SpecLinearFilterOption == InitLinearFilterOption /\ [][Next]_vars

\* AecState with a filter that learns nothing, for long enough that the
\* filter should have converged.
Call_AecState_Update_Untrained == Call_AecState_Update(UntrainedFilterReadings, MaxBlocks)

NextUntrained == Call_AecState_Update_Untrained \/ Call_HandleEchoPathChange \/ Call_UpdateCaptureSaturation

SpecUntrained == Init /\ [][NextUntrained]_vars

\* ------------------------------------------------------------------- claims

\* The least element of a non-empty set of integers.
Least(S) == CHOOSE m \in S : \A v \in S : m <= v

\* C1 (SpecTransparentMode): with bounded_erl set, transparency_activated_ is
\* false after every TransparentMode::Update, whatever the arguments of the
\* Update calls so far and however many Reset calls came between them.
C1_BoundedErlNeverTransparent ==
  (call.name = "TransparentMode::Update" /\ transparent_state_.bounded_erl_)
    => ~transparent_state_.transparency_activated_

\* C1 witness: bounded_erl is the only thing keeping transparent mode off: no
\* convergence was recorded and the filter has had more than 6 seconds.
C1_Witness ==
  /\ call.name = "TransparentMode::Update"
  /\ transparent_state_.bounded_erl_
  /\ ~transparent_state_.finite_erl_recently_detected_
  /\ ~transparent_state_.recent_convergence_during_activity_
  /\ ExceedsSeconds(transparent_state_.strong_not_saturated_render_blocks_, 6, 1)
  /\ ~transparent_state_.transparency_activated_

\* C2 (SpecNeverConverged: no Update reports a converged filter, render is
\* active in every Update): with bounded_erl unset, after every Update that
\* leaves strong_not_saturated_render_blocks_ above 6 * kNumBlocksPerSecond,
\* transparency_activated_ is true, whatever the other arguments were.
C2_TransparentOnceFilterShouldHaveConverged ==
  ( /\ call.name = "TransparentMode::Update"
    /\ ~transparent_state_.bounded_erl_
    /\ ExceedsSeconds(transparent_state_.strong_not_saturated_render_blocks_, 6, 1) )
    => transparent_state_.transparency_activated_

\* C2 witness: transparent mode went on although a sane filter was observed
\* and some of the blocks were saturated.
C2_Witness ==
  /\ call.name = "TransparentMode::Update"
  /\ ~transparent_state_.bounded_erl_
  /\ transparent_state_.sane_filter_observed_
  /\ ExceedsSeconds(transparent_state_.strong_not_saturated_render_blocks_, 6, 1)
  /\ transparent_state_.transparency_activated_

\* C4 (SpecFilteringQuality): after a FilteringQualityAnalyzer::Update that
\* leaves filter_update_blocks_since_start_ below 0.4 * kNumBlocksPerSecond,
\* usable_linear_estimate_ is false.
C4_NotUsableBeforeStartupData ==
  ( /\ call.name = "FilteringQualityAnalyzer::Update"
    /\ BelowSeconds(filter_quality_state_.filter_update_blocks_since_start_, 2, 5) )
    => ~filter_quality_state_.usable_linear_estimate_

\* C4 witness: everything else speaks for a usable estimate: an external
\* delay is supplied, convergence was seen, transparent mode is off and the
\* filter has adapted since start for 0.2 seconds and more.
C4_Witness ==
  /\ call.name = "FilteringQualityAnalyzer::Update"
  /\ BelowSeconds(filter_quality_state_.filter_update_blocks_since_start_, 2, 5)
  /\ ExceedsSeconds(filter_quality_state_.filter_update_blocks_since_reset_, 1, 5)
  /\ call.external_delay.has_value
  /\ filter_quality_state_.convergence_seen_
  /\ ~call.transparent_mode
  /\ ~filter_quality_state_.usable_linear_estimate_

\* C5 as stated: after every FilteringQualityAnalyzer::Update,
\* usable_linear_estimate_ is true iff filter_update_blocks_since_start_ is
\* at least 0.4 * kNumBlocksPerSecond, filter_update_blocks_since_reset_ is
\* at least 0.2 * kNumBlocksPerSecond, an external delay is known or
\* convergence_seen_ is true, and the transparent_mode argument is false.
C5_UsableIffAtLeast ==
  call.name = "FilteringQualityAnalyzer::Update" =>
    ( filter_quality_state_.usable_linear_estimate_ <=>
        ( /\ ~BelowSeconds(filter_quality_state_.filter_update_blocks_since_start_, 2, 5)
          /\ ~BelowSeconds(filter_quality_state_.filter_update_blocks_since_reset_, 1, 5)
          /\ (call.external_delay.has_value \/ filter_quality_state_.convergence_seen_)
          /\ ~call.transparent_mode ) )

\* C5 amended: after every FilteringQualityAnalyzer::Update,
\* usable_linear_estimate_ is true iff filter_update_blocks_since_start_ is
\* more than 0.4 * kNumBlocksPerSecond, filter_update_blocks_since_reset_ is
\* more than 0.2 * kNumBlocksPerSecond, an external delay is known or
\* convergence_seen_ is true, and the transparent_mode argument is false.
C5_UsableIffMoreThan ==
  call.name = "FilteringQualityAnalyzer::Update" =>
    ( filter_quality_state_.usable_linear_estimate_ <=>
        ( /\ filter_quality_state_.filter_update_blocks_since_start_ * 5 > 2 * kNumBlocksPerSecond
          /\ filter_quality_state_.filter_update_blocks_since_reset_ * 5 > kNumBlocksPerSecond
          /\ (call.external_delay.has_value \/ filter_quality_state_.convergence_seen_)
          /\ ~call.transparent_mode ) )

\* C5 witness: the estimate is usable after a Reset came between the
\* updates, without an external delay in this call.
C5_Witness ==
  /\ call.name = "FilteringQualityAnalyzer::Update"
  /\ filter_quality_state_.usable_linear_estimate_
  /\ ~call.external_delay.has_value
  /\ filter_quality_state_.filter_update_blocks_since_reset_
       < filter_quality_state_.filter_update_blocks_since_start_

\* C6 (SpecInitialState), for every InitialState::Update of a sequence that
\* follows construction or Reset: initial_state_ is true after it if the
\* counter is below the threshold; the first Update of the sequence that
\* leaves the counter at or above the threshold leaves initial_state_ false
\* and transition_triggered_ true; transition_triggered_ is false after every
\* other Update.
C6_InitialStateTransition ==
  [][ call'.name = "InitialState::Update" =>
        LET below == InitialState_BelowThreshold(initial_state_', initial_state_'.strong_not_saturated_render_blocks_)
            first == /\ ~below
                     /\ \/ call.name # "InitialState::Update"
                        \/ InitialState_BelowThreshold(initial_state_, initial_state_.strong_not_saturated_render_blocks_)
        IN /\ below => initial_state_'.initial_state_
           /\ first => (~initial_state_'.initial_state_ /\ initial_state_'.transition_triggered_)
           /\ ~first => ~initial_state_'.transition_triggered_ ]_vars

\* C6 witness: the Update that reached the threshold of a configuration with
\* a positive threshold.
C6_Witness ==
  /\ call.name = "InitialState::Update"
  /\ initial_state_.strong_not_saturated_render_blocks_ > 0
  /\ ~InitialState_BelowThreshold(initial_state_, initial_state_.strong_not_saturated_render_blocks_)
  /\ InitialState_BelowThreshold(initial_state_, initial_state_.strong_not_saturated_render_blocks_ - 1)
  /\ ~initial_state_.initial_state_
  /\ initial_state_.transition_triggered_

\* C10 (SpecFilterDelay): after every FilterDelay::Update, if
\* blocks_with_proper_filter_adaptation < 2 * kNumBlocksPerSecond and an
\* external delay exists (of this call or latched), filter_delay_blocks_ is
\* delay_headroom_samples_ / kBlockSize; otherwise it is the least
\* DelayBlocks() of the analyzers supplied.
C10_FilterDelayBlocks ==
  call.name = "FilterDelay::Update" =>
    delay_state_.filter_delay_blocks_ =
      IF /\ call.blocks_with_proper_filter_adaptation < 2 * kNumBlocksPerSecond
         /\ (call.external_delay.has_value \/ delay_state_.external_delay_reported_)
        THEN delay_state_.delay_headroom_samples_ \div kBlockSize
        ELSE Least({call.filter_analyzers[ch] : ch \in DOMAIN call.filter_analyzers})

\* C10 witness: the headroom value is used on the strength of a delay latched
\* by an earlier call, and differs from what the analyzers report.
C10_Witness ==
  /\ call.name = "FilterDelay::Update"
  /\ call.blocks_with_proper_filter_adaptation < 2 * kNumBlocksPerSecond
  /\ ~call.external_delay.has_value
  /\ delay_state_.external_delay_.has_value
  /\ delay_state_.filter_delay_blocks_ = delay_state_.delay_headroom_samples_ \div kBlockSize
  /\ delay_state_.filter_delay_blocks_ # Least({call.filter_analyzers[ch] : ch \in DOMAIN call.filter_analyzers})

\* C3 (SpecUntrained): UsableLinearEstimate() and TransparentMode() are
\* never both true.
C3_UsableOnlyWhileNotTransparent == ~(UsableLinearEstimate /\ TransparentMode)

\* C3 witness: after an Update, transparent mode is on and the estimate is
\* not usable although the filter has had the data it needs and an external
\* delay was reported.
C3_Witness ==
  /\ call.name = "AecState::Update"
  /\ TransparentMode
  /\ ~UsableLinearEstimate
  /\ SufficientDataToConvergeAtReset(filter_quality_state_.filter_update_blocks_since_start_, filter_quality_state_.filter_update_blocks_since_reset_)
  /\ delay_state_.external_delay_reported_

\* C7 (Spec): HandleEchoPathChange with delay_change != kNone leaves both
\* render counters 0, the capture-saturation flag false, InitialState active
\* with counter 0, the linear estimate not usable with its since-reset
\* counter 0, TransparentMode reset, and has reset every filter analyzer,
\* hard-reset the ERLE estimator and reset the ERL estimator.
C7_FullReset ==
  ( /\ call.name = "AecState::HandleEchoPathChange"
    /\ call.echo_path_variability.delay_change # "kNone" )
    => /\ strong_not_saturated_render_blocks_ = 0
       /\ blocks_with_active_render_ = 0
       /\ capture_signal_saturation_ = FALSE
       /\ initial_state_.initial_state_
       /\ initial_state_.strong_not_saturated_render_blocks_ = 0
       /\ ~filter_quality_state_.usable_linear_estimate_
       /\ filter_quality_state_.filter_update_blocks_since_reset_ = 0
       /\ transparent_state_.non_converged_sequence_size_ = kBlocksSinceConvergencedFilterInit
       /\ transparent_state_.diverged_sequence_size_ = 0
       /\ transparent_state_.strong_not_saturated_render_blocks_ = 0
       /\ (transparent_state_.linear_and_stable_echo_path_ => ~transparent_state_.recent_convergence_during_activity_)
       /\ collaborators.filter_analyzers_ = [ch \in 1..config_.num_capture_channels |-> <<"Reset">>]
       /\ collaborators.erle_estimator_ = <<"Reset(true)">>
       /\ collaborators.erl_estimator_ = <<"Reset">>

\* C7 witness: a full reset on a buffer flush, of a state that had left the
\* initial state in the Update before and had counted filter updates.
C7_Witness ==
  /\ call.name = "AecState::HandleEchoPathChange"
  /\ call.echo_path_variability.delay_change = "kBufferFlush"
  /\ initial_state_.transition_triggered_
  /\ initial_state_.initial_state_
  /\ filter_quality_state_.filter_update_blocks_since_start_ > 0
  /\ strong_not_saturated_render_blocks_ = 0

\* C8 (Spec): HandleEchoPathChange with delay_change = kNone changes no
\* member of AecState or of its sub-trackers and calls neither the filter
\* analyzers nor the ERL estimator; it calls erle_estimator_.Reset(false)
\* exactly when gain_change is set; and for every variability each
\* subtractor-output analyzer gets one HandleEchoPathChange call.
C8_GainOnlyChange ==
  [][ call'.name = "AecState::HandleEchoPathChange" =>
        /\ collaborators'.subtractor_output_analyzers_ = [ch \in 1..config_.num_capture_channels |-> <<"HandleEchoPathChange">>]
        /\ call'.echo_path_variability.delay_change = "kNone" =>
             /\ UNCHANGED <<strong_not_saturated_render_blocks_, blocks_with_active_render_, capture_signal_saturation_, initial_state_, transparent_state_, filter_quality_state_, delay_state_, saturation_detector_>>
             /\ collaborators'.filter_analyzers_ = <<>>
             /\ collaborators'.erl_estimator_ = <<>>
             /\ collaborators'.erle_estimator_ = IF call'.echo_path_variability.gain_change THEN <<"Reset(false)">> ELSE <<>> ]_vars

\* C8 witness: a change without gain or delay change, of a state with
\* counted blocks, saturated capture and a usable estimate: nothing is reset.
C8_Witness ==
  /\ call.name = "AecState::HandleEchoPathChange"
  /\ call.echo_path_variability = [delay_change |-> "kNone", gain_change |-> FALSE]
  /\ collaborators.erle_estimator_ = <<>>
  /\ strong_not_saturated_render_blocks_ > 0
  /\ capture_signal_saturation_
  /\ ~initial_state_.initial_state_
  /\ UsableLinearEstimate

\* C9 (Spec): no operation lowers blocks_with_active_render_ or
\* strong_not_saturated_render_blocks_, except HandleEchoPathChange with
\* delay_change != kNone, which sets both to 0; an Update raises each by 0 or
\* 1, and raises strong_not_saturated_render_blocks_ exactly when render is
\* active and capture is not saturated.
C9_RenderCounters ==
  [][ LET full_reset == /\ call'.name = "AecState::HandleEchoPathChange"
                        /\ call'.echo_path_variability.delay_change # "kNone"
      IN /\ full_reset => /\ blocks_with_active_render_' = 0
                          /\ strong_not_saturated_render_blocks_' = 0
         /\ ~full_reset => /\ blocks_with_active_render_' >= blocks_with_active_render_
                           /\ strong_not_saturated_render_blocks_' >= strong_not_saturated_render_blocks_
         /\ call'.name = "AecState::Update" =>
              /\ blocks_with_active_render_' - blocks_with_active_render_ \in {0, 1}
              /\ strong_not_saturated_render_blocks_' - strong_not_saturated_render_blocks_ \in {0, 1}
              /\ (strong_not_saturated_render_blocks_' = strong_not_saturated_render_blocks_ + 1)
                   <=> (ActiveRender(call'.aligned_render_block, config_.active_render_limit) /\ ~capture_signal_saturation_) ]_vars

\* C9 witness: an Update with active render and saturated capture has raised
\* blocks_with_active_render_ alone.
C9_Witness ==
  /\ call.name = "AecState::Update"
  /\ ActiveRender(call.aligned_render_block, config_.active_render_limit)
  /\ capture_signal_saturation_
  /\ strong_not_saturated_render_blocks_ > 0
  /\ blocks_with_active_render_ > strong_not_saturated_render_blocks_

\* C11 (SpecSaturationDetector): after every SaturationDetector::Update,
\* saturated_echo_ is decided by the arguments of that call: false without
\* saturated capture; with it and a usable linear estimate, true iff some
\* channel's s_main_max_abs or s_shadow_max_abs exceeds 20000; with it and
\* no usable estimate, true iff the largest |render sample| of all channels
\* times echo_path_gain times 10 exceeds 32000.
C11_SaturatedEchoOfThisCall ==
  call.name = "SaturationDetector::Update" =>
    ( saturation_detector_.saturated_echo_ <=>
        /\ call.saturated_capture
        /\ IF call.usable_linear_estimate
             THEN \E ch \in DOMAIN call.subtractor_output :
                    \/ call.subtractor_output[ch].s_main_max_abs > 20000
                    \/ call.subtractor_output[ch].s_shadow_max_abs > 20000
             ELSE \E ch \in DOMAIN call.x : \E k \in DOMAIN call.x[ch] :
                    \/ call.x[ch][k] * call.echo_path_gain * 10 > 32000
                    \/ (-call.x[ch][k]) * call.echo_path_gain * 10 > 32000 )

\* C11 witness: at gain 1 a largest amplitude of 3000 gives no saturated
\* echo, although the peaks of the subtractor outputs are above 20000 and
\* the detector is called again after an Update.
C11_Witness ==
  /\ call.name = "SaturationDetector::Update"
  /\ call.saturated_capture
  /\ ~call.usable_linear_estimate
  /\ call.echo_path_gain = 1
  /\ \A ch \in DOMAIN call.x : call.x[ch][1] = 3000
  /\ \E ch \in DOMAIN call.subtractor_output : call.subtractor_output[ch].s_main_max_abs > 20000
  /\ ~saturation_detector_.saturated_echo_

\* C12 as stated: TransparentMode::Reset leaves
\* active_blocks_since_sane_filter_ and non_converged_sequence_size_ at the
\* 10000 of their initialisation and diverged_sequence_size_ and
\* strong_not_saturated_render_blocks_ at 0, and clears
\* recent_convergence_during_activity_ iff linear_and_stable_echo_path_ is
\* set, leaving it unchanged otherwise.
C12_ResetBothSentinels ==
  [][ call'.name = "TransparentMode::Reset" =>
        /\ transparent_state_'.active_blocks_since_sane_filter_ = kBlocksSinceConsistentEstimateInit
        /\ transparent_state_'.non_converged_sequence_size_ = kBlocksSinceConvergencedFilterInit
        /\ transparent_state_'.diverged_sequence_size_ = 0
        /\ transparent_state_'.strong_not_saturated_render_blocks_ = 0
        /\ transparent_state_'.recent_convergence_during_activity_ =
             IF transparent_state_.linear_and_stable_echo_path_
               THEN FALSE
               ELSE transparent_state_.recent_convergence_during_activity_ ]_vars

\* C12 amended (SpecTransparentMode): TransparentMode::Reset leaves
\* non_converged_sequence_size_ at 10000, diverged_sequence_size_ and
\* strong_not_saturated_render_blocks_ at 0, and
\* active_blocks_since_sane_filter_ as it was; it clears
\* recent_convergence_during_activity_ iff linear_and_stable_echo_path_ is
\* set and leaves it unchanged otherwise.
C12_ResetOneSentinel ==
  [][ call'.name = "TransparentMode::Reset" =>
        /\ transparent_state_'.active_blocks_since_sane_filter_ = transparent_state_.active_blocks_since_sane_filter_
        /\ transparent_state_'.non_converged_sequence_size_ = kBlocksSinceConvergencedFilterInit
        /\ transparent_state_'.diverged_sequence_size_ = 0
        /\ transparent_state_'.strong_not_saturated_render_blocks_ = 0
        /\ transparent_state_'.recent_convergence_during_activity_ =
             IF transparent_state_.linear_and_stable_echo_path_
               THEN FALSE
               ELSE transparent_state_.recent_convergence_during_activity_ ]_vars

\* C12 witness: a Reset after a sane, converged filter was seen, without
\* linear_and_stable_echo_path_: the blocks since the sane filter and the
\* convergence flag are kept.
C12_Witness ==
  /\ call.name = "TransparentMode::Reset"
  /\ ~transparent_state_.linear_and_stable_echo_path_
  /\ transparent_state_.sane_filter_observed_
  /\ transparent_state_.active_blocks_since_sane_filter_ < kBlocksSinceConsistentEstimateInit
  /\ transparent_state_.recent_convergence_during_activity_
  /\ transparent_state_.non_converged_sequence_size_ = kBlocksSinceConvergencedFilterInit
  /\ transparent_state_.strong_not_saturated_render_blocks_ = 0
  /\ transparent_state_.capture_block_counter_ > 0

\* C13 as stated: convergence_seen_, external_delay_reported_ and
\* sane_filter_observed_ stay true once true, across AecState::Update and
\* HandleEchoPathChange; an Update makes convergence_seen_ true iff it was
\* true or some filter is converged, external_delay_reported_ true iff it
\* was true or the Update carries an external delay, sane_filter_observed_
\* true iff it was true or some filter is consistent and the filter delay is
\* below 5 blocks.
C13_StickyFlags ==
  [][ /\ filter_quality_state_.convergence_seen_ => filter_quality_state_'.convergence_seen_
      /\ delay_state_.external_delay_reported_ => delay_state_'.external_delay_reported_
      /\ transparent_state_.sane_filter_observed_ => transparent_state_'.sane_filter_observed_
      /\ call'.name = "AecState::Update" =>
           /\ filter_quality_state_'.convergence_seen_ <=>
                (filter_quality_state_.convergence_seen_ \/ call'.any_filter_converged)
           /\ delay_state_'.external_delay_reported_ <=>
                (delay_state_.external_delay_reported_ \/ call'.external_delay.has_value)
           /\ transparent_state_'.sane_filter_observed_ <=>
                (transparent_state_.sane_filter_observed_ \/ (call'.any_filter_consistent /\ delay_state_'.filter_delay_blocks_ < 5)) ]_vars

\* C13 amended (SpecLinearFilterOption): as stated, except that an Update
\* carrying an external delay makes external_delay_reported_ true only when
\* config.filter.use_linear_filter is set; without it no Update changes the
\* flag.
C13_StickyFlagsLinearFilter ==
  [][ /\ filter_quality_state_.convergence_seen_ => filter_quality_state_'.convergence_seen_
      /\ delay_state_.external_delay_reported_ => delay_state_'.external_delay_reported_
      /\ transparent_state_.sane_filter_observed_ => transparent_state_'.sane_filter_observed_
      /\ call'.name = "AecState::Update" =>
           /\ filter_quality_state_'.convergence_seen_ <=>
                (filter_quality_state_.convergence_seen_ \/ call'.any_filter_converged)
           /\ delay_state_'.external_delay_reported_ <=>
                (delay_state_.external_delay_reported_ \/ (config_.use_linear_filter /\ call'.external_delay.has_value))
           /\ transparent_state_'.sane_filter_observed_ <=>
                (transparent_state_.sane_filter_observed_ \/ (call'.any_filter_consistent /\ delay_state_'.filter_delay_blocks_ < 5)) ]_vars

\* C13 witness: the three flags are set and a full reset has left them set.
C13_Witness ==
  /\ call.name = "AecState::HandleEchoPathChange"
  /\ call.echo_path_variability.delay_change # "kNone"
  /\ filter_quality_state_.convergence_seen_
  /\ delay_state_.external_delay_reported_
  /\ transparent_state_.sane_filter_observed_
  /\ filter_quality_state_.filter_update_blocks_since_reset_ = 0

\* C14 (Spec): an AecState::Update calls erle_estimator_.Reset(false), once
\* and before erle_estimator_.Update, iff initial_state_ went from true to
\* false in the AecState::Update before it; no other Update calls it.  Stated
\* step by step: an Update issues the reset iff transition_triggered_ is set
\* when it starts; it leaves transition_triggered_ set iff it took
\* initial_state_ from true to false; no other operation changes
\* transition_triggered_, which is false before the first Update.
C14_ErleResetAfterTransition ==
  [][ /\ call.name = "AecState::AecState" => ~initial_state_.transition_triggered_
      /\ call'.name = "AecState::Update" =>
           /\ collaborators'.erle_estimator_ =
                IF initial_state_.transition_triggered_ THEN <<"Reset(false)", "Update">> ELSE <<"Update">>
           /\ initial_state_'.transition_triggered_ <=>
                (initial_state_.initial_state_ /\ ~initial_state_'.initial_state_)
      /\ call'.name # "AecState::Update" =>
           initial_state_'.transition_triggered_ = initial_state_.transition_triggered_ ]_vars

\* C14 witness: the Update after the one that left the initial state has
\* reset the ERLE estimator before updating it, and triggers no second reset.
C14_Witness ==
  /\ call.name = "AecState::Update"
  /\ collaborators.erle_estimator_ = <<"Reset(false)", "Update">>
  /\ ~initial_state_.initial_state_
  /\ ~initial_state_.transition_triggered_

\* C15 (SpecConvergedRun): once 51 consecutive TransparentMode::Update calls
\* had a converged filter, with Reset calls anywhere between them,
\* finite_erl_recently_detected_ is true and transparency_activated_ is
\* false, and they stay so while every further Update has a converged filter.
C15_ConvergenceEndsTransparentMode ==
  ConvergedRun(call) >= 51 =>
    /\ transparent_state_.finite_erl_recently_detected_
    /\ ~transparent_state_.transparency_activated_

\* C15 witness: the 51st Update of a run that started from no converged
\* block; nothing but finite_erl_recently_detected_ keeps transparent mode
\* off: no bounded ERL, no sane filter within 5 seconds and more than 6
\* seconds of strong render.
C15_Witness ==
  /\ call.name = "TransparentMode::Update"
  /\ ConvergedRun(call) = 51
  /\ transparent_state_.num_converged_blocks_ = 51
  /\ ~transparent_state_.bounded_erl_
  /\ ~transparent_state_.sane_filter_observed_
  /\ ExceedsSeconds(transparent_state_.capture_block_counter_, 5, 1)
  /\ ExceedsSeconds(transparent_state_.strong_not_saturated_render_blocks_, 6, 1)
  /\ transparent_state_.finite_erl_recently_detected_
  /\ ~transparent_state_.transparency_activated_

\* C16 as stated: the sentinels kBlocksSinceConvergencedFilterInit and
\* kBlocksSinceConsistentEstimateInit are greater than 5, 6, 20, 30 and 60
\* times kNumBlocksPerSecond, the thresholds of TransparentMode::Update.
C16_SentinelExceedsEveryThreshold ==
  \A k \in {5, 6, 20, 30, 60} :
    /\ kBlocksSinceConvergencedFilterInit > k * kNumBlocksPerSecond
    /\ kBlocksSinceConsistentEstimateInit > k * kNumBlocksPerSecond

\* C16 amended (SpecTransparentModeAtBlockRate): the sentinels are greater
\* than 5, 6, 20 and 30 times kNumBlocksPerSecond but not than 60 times it;
\* the counters that hold a sentinel exceed the thresholds they are compared
\* with: non_converged_sequence_size_ exceeds 20 * kNumBlocksPerSecond after
\* construction and after Reset, and active_blocks_since_sane_filter_
\* exceeds 30 * kNumBlocksPerSecond as long as no sane filter was observed.
C16_SentinelExceedsItsThresholds ==
  /\ \A k \in {5, 6, 20, 30} :
       /\ kBlocksSinceConvergencedFilterInit > k * kNumBlocksPerSecond
       /\ kBlocksSinceConsistentEstimateInit > k * kNumBlocksPerSecond
  /\ ~(kBlocksSinceConvergencedFilterInit > 60 * kNumBlocksPerSecond)
  /\ ~(kBlocksSinceConsistentEstimateInit > 60 * kNumBlocksPerSecond)
  /\ call.name \in {"AecState::AecState", "TransparentMode::Reset"} =>
       ExceedsSeconds(transparent_state_.non_converged_sequence_size_, 20, 1)
  /\ ~transparent_state_.sane_filter_observed_ =>
       ExceedsSeconds(transparent_state_.active_blocks_since_sane_filter_, 30, 1)

\* C16 witness: at the real rate, a Reset after converged blocks has put the
\* sentinel back into non_converged_sequence_size_, and
\* active_blocks_since_sane_filter_ has counted on from its sentinel.
C16_Witness ==
  /\ kNumBlocksPerSecond = BlockRate
  /\ call.name = "TransparentMode::Reset"
  /\ transparent_state_.num_converged_blocks_ > 0
  /\ transparent_state_.non_converged_sequence_size_ = kBlocksSinceConvergencedFilterInit
  /\ ~transparent_state_.sane_filter_observed_
  /\ transparent_state_.active_blocks_since_sane_filter_ > kBlocksSinceConsistentEstimateInit

\* C17 (Spec): after every AecState::Update and HandleEchoPathChange the
\* four counts of blocks with active render and no saturated capture agree,
\* AecState's, InitialState's and TransparentMode's
\* strong_not_saturated_render_blocks_ and filter_update_blocks_since_reset_;
\* filter_update_blocks_since_reset_ <= filter_update_blocks_since_start_
\* and strong_not_saturated_render_blocks_ <= blocks_with_active_render_.
C17_CountsAgree ==
  /\ strong_not_saturated_render_blocks_ = initial_state_.strong_not_saturated_render_blocks_
  /\ strong_not_saturated_render_blocks_ = transparent_state_.strong_not_saturated_render_blocks_
  /\ strong_not_saturated_render_blocks_ = filter_quality_state_.filter_update_blocks_since_reset_
  /\ filter_quality_state_.filter_update_blocks_since_reset_ <= filter_quality_state_.filter_update_blocks_since_start_
  /\ strong_not_saturated_render_blocks_ <= blocks_with_active_render_

\* C17 witness: an Update after a full reset: the four counts restarted
\* together, the count since start and the capture block counter did not.
C17_Witness ==
  /\ call.name = "AecState::Update"
  /\ strong_not_saturated_render_blocks_ > 0
  /\ filter_quality_state_.filter_update_blocks_since_start_ > filter_quality_state_.filter_update_blocks_since_reset_
  /\ transparent_state_.capture_block_counter_ > blocks_with_active_render_

\* C18 as stated: in every state reached by AecState::Update and
\* HandleEchoPathChange calls, TransparentMode() is true only if
\* TransparentMode's strong_not_saturated_render_blocks_ exceeds
\* 6 * kNumBlocksPerSecond, also right after a full reset.
C18_TransparentOnlyAfterSixSeconds ==
  TransparentMode => ExceedsSeconds(transparent_state_.strong_not_saturated_render_blocks_, 6, 1)

\* C18 amended (SpecUntrained): after every AecState::Update,
\* TransparentMode() is true only if TransparentMode's
\* strong_not_saturated_render_blocks_ exceeds 6 * kNumBlocksPerSecond; no
\* other operation changes TransparentMode(), so that after a full reset it
\* is what it was before, with the counter at 0.
C18_TransparentOnlyAfterSixSecondsAtUpdate ==
  [][ /\ call'.name = "AecState::Update" =>
           (TransparentMode' => ExceedsSeconds(transparent_state_'.strong_not_saturated_render_blocks_, 6, 1))
      /\ call'.name # "AecState::Update" => TransparentMode' = TransparentMode ]_vars

\* C18 witness: transparent mode is still reported after a full reset.
C18_Witness ==
  /\ call.name = "AecState::HandleEchoPathChange"
  /\ call.echo_path_variability.delay_change # "kNone"
  /\ TransparentMode
  /\ transparent_state_.strong_not_saturated_render_blocks_ = 0

\* C19 as stated: in every state reached by AecState::Update and
\* HandleEchoPathChange calls, SaturatedEcho() is true only if
\* SaturatedCapture() is true, and ErleUncertainty() has a value (1.0) only
\* if SaturatedCapture() is true, also right after a full reset.
C19_SaturatedEchoOnlyWithSaturatedCapture ==
  /\ SaturatedEcho => SaturatedCapture
  /\ ErleUncertainty.has_value => (ErleUncertainty.value = 1 /\ SaturatedCapture)

\* C19 amended (Spec): after every AecState::Update, SaturatedEcho() is true
\* only if SaturatedCapture() is true, and ErleUncertainty() is 1.0 only
\* then and has no value otherwise; no other operation changes
\* SaturatedEcho(), so that after a full reset, or after the capture flag is
\* lowered, it is what the last Update left.
C19_SaturatedEchoOnlyWithSaturatedCaptureAtUpdate ==
  [][ /\ call'.name = "AecState::Update" =>
           /\ SaturatedEcho' => SaturatedCapture'
           /\ ErleUncertainty'.has_value => (ErleUncertainty'.value = 1 /\ SaturatedCapture')
           /\ ~SaturatedCapture' => ~ErleUncertainty'.has_value
      /\ call'.name # "AecState::Update" => SaturatedEcho' = SaturatedEcho ]_vars

\* C19 witness: a full reset has cleared the capture-saturation flag, and
\* the echo is still reported saturated, with an ERLE uncertainty of 1.0.
C19_Witness ==
  /\ call.name = "AecState::HandleEchoPathChange"
  /\ call.echo_path_variability.delay_change # "kNone"
  /\ ~SaturatedCapture
  /\ SaturatedEcho
  /\ ErleUncertainty = [has_value |-> TRUE, value |-> 1]

\* C20 as stated: in every state reached by InitialState::Update and
\* InitialState::Reset calls, transition_triggered_ is true only if
\* initial_state_ is false.
C20_TriggeredOnlyOutsideInitialState ==
  initial_state_.transition_triggered_ => ~initial_state_.initial_state_

\* C20 amended (SpecInitialState): after every InitialState::Update,
\* transition_triggered_ is true only if initial_state_ is false;
\* InitialState::Reset sets initial_state_ and leaves transition_triggered_
\* as it was.
C20_TriggeredOnlyOutsideInitialStateAtUpdate ==
  [][ /\ call'.name = "InitialState::Update" =>
           (initial_state_'.transition_triggered_ => ~initial_state_'.initial_state_)
      /\ call'.name = "InitialState::Reset" =>
           /\ initial_state_'.initial_state_
           /\ initial_state_'.transition_triggered_ = initial_state_.transition_triggered_ ]_vars

\* C20 witness: a Reset right after the Update that left the initial state,
\* with the transition flag still set and the initial state active again.
C20_Witness ==
  /\ call.name = "InitialState::Reset"
  /\ initial_state_.transition_triggered_
  /\ initial_state_.initial_state_
  /\ initial_state_.strong_not_saturated_render_blocks_ = 0

\* C21 (SpecNonConvergedRun), for every TransparentMode::Update of a
\* sequence of Update and Reset calls: after it,
\* active_non_converged_sequence_size_ > 60 * kNumBlocksPerSecond implies
\* num_converged_blocks_ = 0; the test that clears
\* finite_erl_recently_detected_ and the test that sets it
\* (num_converged_blocks_ > 50) are not both true; and the flag is what the
\* two tests give when the setting one is applied first and the clearing
\* one second, the reverse of the order of lines 432-437.
C21_ClearAndSetExclusive ==
  [][ call'.name = "TransparentMode::Update" =>
        LET clears == ExceedsSeconds(transparent_state_'.active_non_converged_sequence_size_, 60, 1)
            sets == transparent_state_'.num_converged_blocks_ > 50
            set_first == IF sets THEN TRUE ELSE transparent_state_.finite_erl_recently_detected_
            then_cleared == IF clears THEN FALSE ELSE set_first
        IN /\ clears => transparent_state_'.num_converged_blocks_ = 0
           /\ ~(clears /\ sets)
           /\ transparent_state_'.finite_erl_recently_detected_ = then_cleared ]_vars

\* C21 witness: an Update that found finite_erl_recently_detected_ set, by
\* more than 50 converged blocks, and cleared it because the active
\* non-converged sequence passed 60 seconds, with a Reset inside that
\* sequence; the converged blocks have been forgotten.
C21_Witness ==
  /\ call.name = "TransparentMode::Update"
  /\ call.finite_erl_recently_detected_before
  /\ ~transparent_state_.finite_erl_recently_detected_
  /\ ExceedsSeconds(transparent_state_.active_non_converged_sequence_size_, 60, 1)
  /\ transparent_state_.num_converged_blocks_ = 0
  /\ transparent_state_.non_converged_sequence_size_ > kBlocksSinceConvergencedFilterInit

====
